---- MODULE Spec2Model ----
(***************************************************************************)
(* A model of edurec/sasrec_model.py: the self-attentive sequence encoder  *)
(* (scaled dot-product attention, MultiHeadAttention, PointWiseFFN,        *)
(* SASEncoderLayer, SASEncoder).                                           *)
(*                                                                         *)
(* The file is pure tensor code, so it is modelled at four levels, each    *)
(* with its own specification:                                             *)
(*   SpecMHA    MultiHeadAttention.__init__ and .call on tensor SHAPES     *)
(*   SpecSplit  split_heads and the head merge on tensors with DATA        *)
(*   SpecAttn   scaled_dot_product_attention on numbers (fixed point)      *)
(*   SpecEnc    SASEncoder.call / SASEncoderLayer.call / PointWiseFFN.call *)
(*              on symbolic per-position values                            *)
(***************************************************************************)
EXTENDS Integers, Sequences, FiniteSets, TLC

VARIABLES
    \* ---- MultiHeadAttention (shape level) ----
    mpc,        \* position in __init__ / call
    ctorArgs,   \* the arguments of MultiHeadAttention(d_model, num_heads)
    self,       \* the MultiHeadAttention object's attributes
    callArgs,   \* the shapes of the arguments of call(v, k, q, mask)
    frame,      \* the shapes of call's local variables
    \* ---- split_heads and the head merge (data level) ----
    xin,        \* the tensor split_heads is given
    heads,      \* split_heads(x), kept for the merge
    merged,     \* the tensor the merge of call returns
    \* ---- scaled_dot_product_attention (numbers) ----
    apc,        \* position in scaled_dot_product_attention
    attArgs,    \* its arguments q, k, v, mask
    att,        \* its local variables
    \* ---- SASEncoder.call and SASEncoderLayer.call (data flow) ----
    epc,        \* position in SASEncoder.call / SASEncoderLayer.call
    enc,        \* the SASEncoder object's attributes
    encArgs,    \* the arguments of SASEncoder.call(x, training, mask)
    rng,        \* the framework's random generator, read by active dropout
    tape,       \* the framework operations the current call has made
    loc,        \* the local variables of the two call methods
    finished    \* the calls that have returned: their tape and result

mhaVars   == <<mpc, ctorArgs, self, callArgs, frame>>
splitVars == <<xin, heads, merged>>

attVars   == <<apc, attArgs, att>>
encVars   == <<epc, enc, encArgs, rng, tape, loc, finished>>

notMHA   == <<splitVars, attVars, encVars>>
notSplit == <<ctorArgs, callArgs, frame, attVars, encVars>>
notAtt   == <<mhaVars, splitVars, encVars>>
notEnc   == <<mhaVars, splitVars, attVars>>

vars == <<mhaVars, splitVars, attVars, encVars>>

-----------------------------------------------------------------------------
(* Bounds of the model.                                                    *)

MaxDModel == 10
MaxHeads  == 4
MaxBatch  == 2
MaxSeqLen == 2
MaxDepth  == 2
MaxLayers == 2

-----------------------------------------------------------------------------
(* Tensor shapes and the framework's shape rules.                          *)

\* The shape a failed operation yields (the framework raises).
BadShape == <<-1>>

IsBad(s) == s = BadShape

RECURSIVE Prod(_)
Prod(s) == IF Len(s) = 0 THEN 1 ELSE Head(s) * Prod(Tail(s))

\* tf.reshape(x, target): the element count is kept; one -1 entry of target
\* is inferred from it; an impossible target raises.
ReshapeShape(s, target) ==
    LET holes == {i \in 1..Len(target) : target[i] = -1}
        known == Prod([i \in 1..Len(target) |->
                          IF target[i] = -1 THEN 1 ELSE target[i]])
    IN  IF IsBad(s) \/ Cardinality(holes) > 1 THEN BadShape
        ELSE IF holes = {}
             THEN IF known = Prod(s) THEN target ELSE BadShape
        ELSE IF known > 0 /\ Prod(s) % known = 0
             THEN [i \in 1..Len(target) |->
                      IF target[i] = -1 THEN Prod(s) \div known ELSE target[i]]
        ELSE BadShape

\* tf.transpose(x, perm): output axis i is input axis perm[i] (0-based).
TransposeShape(s, perm) ==
    IF IsBad(s) \/ Len(s) # Len(perm) THEN BadShape
    ELSE [i \in 1..Len(perm) |-> s[perm[i] + 1]]

\* tf.keras.layers.Dense(units) acts on the last axis.
DenseShape(s, units) ==
    IF IsBad(s) \/ Len(s) = 0 THEN BadShape
    ELSE [i \in 1..Len(s) |-> IF i = Len(s) THEN units ELSE s[i]]

\* Broadcasting of two shapes, aligned at the last axis.
BroadcastShape(a, b) ==
    LET n  == IF Len(a) > Len(b) THEN Len(a) ELSE Len(b)
        da(i) == IF i + Len(a) - n >= 1 THEN a[i + Len(a) - n] ELSE 1
        db(i) == IF i + Len(b) - n >= 1 THEN b[i + Len(b) - n] ELSE 1
    IN  IF IsBad(a) \/ IsBad(b) THEN BadShape
        ELSE IF \A i \in 1..n : da(i) = db(i) \/ da(i) = 1 \/ db(i) = 1
             THEN [i \in 1..n |-> IF da(i) = 1 THEN db(i) ELSE da(i)]
        ELSE BadShape

\* tf.matmul(a, b, transpose_b): equal leading axes, matching inner axis.
MatmulShape(a, b, transpose_b) ==
    LET n  == Len(a)
        br == IF transpose_b THEN b[n]     ELSE b[n - 1]   \* b's inner axis
        bc == IF transpose_b THEN b[n - 1] ELSE b[n]       \* b's outer axis
    IN  IF IsBad(a) \/ IsBad(b) \/ Len(a) < 2 \/ Len(b) # Len(a) THEN BadShape
        ELSE IF (\A i \in 1..(n - 2) : a[i] = b[i]) /\ a[n] = br
             THEN [i \in 1..n |-> IF i = n THEN bc ELSE a[i]]
        ELSE BadShape

-----------------------------------------------------------------------------
(* MultiHeadAttention on shapes.                                           *)

NoTensor == [shape |-> <<0>>, data |-> <<>>]

NoAttArgs == [q |-> <<>>, k |-> <<>>, v |-> <<>>,
              mask |-> [present |-> FALSE, rows |-> <<>>]]

NoEncMask == [present |-> FALSE, m |-> <<>>]

NoLoc == [seq_len |-> 0, x |-> 0, x_pos |-> <<>>, i |-> 0,
          layer |-> -1, ltraining |-> FALSE, lmask |-> NoEncMask,
          lx |-> 0, attn_output |-> 0, out1 |-> 0, ffn_output |-> 0,
          out2 |-> 0]

EncIdle ==
    /\ epc = "idle"
    /\ enc = [num_layers |-> 0, max_len |-> 0]
    /\ encArgs = [x |-> <<>>, training |-> FALSE, mask |-> NoEncMask]
    /\ rng = [seed |-> 0, draws |-> 0]
    /\ tape = <<>>
    /\ loc = NoLoc
    /\ finished = <<>>

NoAtt == [matmul_qk |-> <<>>, dk |-> 0, scaled_attention_logits |-> <<>>,
          attention_weights |-> <<>>, output |-> <<>>]

NoMask == [present |-> FALSE, shape |-> <<>>]

\* The same with the scores taken between the keys alone, so that the rows
\* follow seq_len_k instead of seq_len_q.
AttentionRowsBug(q, k, v, mask) ==
    LET matmul_qk == MatmulShape(k, k, TRUE)
        logits    == IF mask.present THEN BroadcastShape(matmul_qk, mask.shape)
                     ELSE matmul_qk
    IN  [output |-> MatmulShape(logits, v, FALSE), attention_weights |-> logits]

\* scaled_dot_product_attention(q, k, v, mask) on shapes:
\* the shapes of (output, attention_weights).
AttentionShapes(q, k, v, mask) ==
    LET matmul_qk == MatmulShape(q, k, TRUE)
        scaled_attention_logits ==
            IF mask.present
            THEN BroadcastShape(matmul_qk, mask.shape)
            ELSE matmul_qk
        attention_weights == scaled_attention_logits       \* softmax keeps it
    IN  [output            |-> MatmulShape(attention_weights, v, FALSE),
         attention_weights |-> attention_weights]

\* split_heads(x, batch_size) on shapes.
SplitHeadsShape(x, batch_size) ==
    TransposeShape(
        ReshapeShape(x, <<batch_size, -1, self.num_heads, self.depth>>),
        <<0, 2, 1, 3>>)

NoFrame == [batch_size |-> 0, q |-> <<>>, k |-> <<>>, v |-> <<>>,
            scaled_attention |-> <<>>, attention_weights |-> <<>>,
            concat_attention |-> <<>>, output |-> <<>>]

NoCall == [v |-> <<>>, k |-> <<>>, q |-> <<>>, mask |-> NoMask,
           maskKind |-> "none"]

NoSelf == [num_heads |-> 0, d_model |-> 0, depth |-> 0,
           wq |-> FALSE, wk |-> FALSE, wv |-> FALSE, dense |-> FALSE]

\* The masks a caller passes: none, a padding mask (batch, 1, 1, seq_k), a
\* look-ahead mask (seq_q, seq_k), and a (batch, seq_q, seq_k) mask, which
\* broadcasts against (batch, heads, seq_q, seq_k) only by accident.
MaskKinds == {"none", "padding", "lookahead", "batch3d"}

MaskOf(kind, batch, seq_q, seq_k) ==
    CASE kind = "none"      -> NoMask
      [] kind = "padding"   -> [present |-> TRUE, shape |-> <<batch, 1, 1, seq_k>>]
      [] kind = "lookahead" -> [present |-> TRUE, shape |-> <<seq_q, seq_k>>]
      [] OTHER              -> [present |-> TRUE, shape |-> <<batch, seq_q, seq_k>>]

InitMHA ==
    /\ mpc = "init"
    /\ ctorArgs \in [d_model : 1..MaxDModel, num_heads : 1..MaxHeads]
    /\ self = NoSelf
    /\ callArgs = NoCall
    /\ frame = NoFrame
    /\ xin = NoTensor /\ heads = NoTensor /\ merged = NoTensor
    /\ apc = "idle" /\ attArgs = NoAttArgs /\ att = NoAtt
    /\ EncIdle

\* __init__, lines 50-52: super().__init__(), self.num_heads, self.d_model.
CtorFields ==
    /\ mpc = "init"
    /\ self' = [self EXCEPT !.num_heads = ctorArgs.num_heads,
                            !.d_model = ctorArgs.d_model]
    /\ mpc' = "assert"
    /\ UNCHANGED <<ctorArgs, callArgs, frame, notMHA>>

\* The assertion with its operands swapped.
AssertSwapped(d_model, num_heads) == num_heads % d_model = 0

\* __init__, line 54: assert d_model % self.num_heads == 0.
AssertHolds(d_model, num_heads) == d_model % num_heads = 0

CtorAssert ==
    /\ mpc = "assert"
    /\ mpc' = IF AssertHolds(ctorArgs.d_model, self.num_heads)
              THEN "depth" ELSE "AssertionError"
    /\ UNCHANGED <<ctorArgs, self, callArgs, frame, notMHA>>

\* __init__, line 56: self.depth = d_model // self.num_heads.
DepthOf(d_model, num_heads) == d_model \div num_heads

CtorDepth ==
    /\ mpc = "depth"
    /\ self' = [self EXCEPT !.depth = DepthOf(ctorArgs.d_model, self.num_heads)]
    /\ mpc' = "layers"
    /\ UNCHANGED <<ctorArgs, callArgs, frame, notMHA>>

\* __init__, lines 58-62: the four Dense(d_model) layers.
CtorLayers ==
    /\ mpc = "layers"
    /\ self' = [self EXCEPT !.wq = TRUE, !.wk = TRUE, !.wv = TRUE, !.dense = TRUE]
    /\ mpc' = "built"
    /\ UNCHANGED <<ctorArgs, callArgs, frame, notMHA>>

\* call(v, k, q, mask) is entered, line 73: batch_size = tf.shape(q)[0].
CallEnter ==
    /\ mpc = "built"
    /\ \E batch \in 1..MaxBatch, seq_q \in 1..MaxSeqLen, seq_k \in 1..MaxSeqLen,
          kind \in MaskKinds :
         /\ callArgs' = [v |-> <<batch, seq_k, self.d_model>>,
                         k |-> <<batch, seq_k, self.d_model>>,
                         q |-> <<batch, seq_q, self.d_model>>,
                         mask |-> MaskOf(kind, batch, seq_q, seq_k),
                         maskKind |-> kind]
         /\ frame' = [NoFrame EXCEPT !.batch_size = batch]
    /\ mpc' = "project"
    /\ UNCHANGED <<ctorArgs, self, notMHA>>

\* lines 75-77: q = self.wq(q); k = self.wk(k); v = self.wv(v).
CallProject ==
    /\ mpc = "project"
    /\ frame' = [frame EXCEPT !.q = DenseShape(callArgs.q, self.d_model),
                              !.k = DenseShape(callArgs.k, self.d_model),
                              !.v = DenseShape(callArgs.v, self.d_model)]
    /\ mpc' = "split"
    /\ UNCHANGED <<ctorArgs, self, callArgs, notMHA>>

\* lines 79-81: the three split_heads calls.
CallSplit ==
    /\ mpc = "split"
    /\ frame' = [frame EXCEPT !.q = SplitHeadsShape(frame.q, frame.batch_size),
                              !.k = SplitHeadsShape(frame.k, frame.batch_size),
                              !.v = SplitHeadsShape(frame.v, frame.batch_size)]
    /\ mpc' = "attention"
    /\ UNCHANGED <<ctorArgs, self, callArgs, notMHA>>

\* lines 85-86: scaled_dot_product_attention(q, k, v, mask).
CallAttention ==
    /\ mpc = "attention"
    /\ LET r == AttentionShapes(frame.q, frame.k, frame.v, callArgs.mask)
       IN  /\ frame' = [frame EXCEPT !.scaled_attention = r.output,
                                     !.attention_weights = r.attention_weights]
           /\ mpc' = IF IsBad(r.output) \/ IsBad(r.attention_weights)
                     THEN "InvalidArgumentError" ELSE "transpose"
    /\ UNCHANGED <<ctorArgs, self, callArgs, notMHA>>

\* lines 88-89: tf.transpose(scaled_attention, perm=[0, 2, 1, 3]).
CallTranspose ==
    /\ mpc = "transpose"
    /\ frame' = [frame EXCEPT !.scaled_attention =
                     TransposeShape(frame.scaled_attention, <<0, 2, 1, 3>>)]
    /\ mpc' = "reshape"
    /\ UNCHANGED <<ctorArgs, self, callArgs, notMHA>>

\* lines 91-92: tf.reshape(scaled_attention, (batch_size, -1, self.d_model)).
CallReshape ==
    /\ mpc = "reshape"
    /\ frame' = [frame EXCEPT !.concat_attention =
                     ReshapeShape(frame.scaled_attention,
                                  <<frame.batch_size, -1, self.d_model>>)]
    /\ mpc' = "dense"
    /\ UNCHANGED <<ctorArgs, self, callArgs, notMHA>>

\* lines 94-96: output = self.dense(concat_attention); return.
CallDense ==
    /\ mpc = "dense"
    /\ frame' = [frame EXCEPT !.output =
                     DenseShape(frame.concat_attention, self.d_model)]
    /\ mpc' = "returned"
    /\ UNCHANGED <<ctorArgs, self, callArgs, notMHA>>

NextMHA ==
    \/ CtorFields
    \/ CtorAssert
    \/ CtorDepth
    \/ CtorLayers
    \/ CallEnter
    \/ CallProject
    \/ CallSplit
    \/ CallAttention
    \/ CallTranspose
    \/ CallReshape
    \/ CallDense

SpecMHA == InitMHA /\ [][NextMHA]_vars


\* C1: MultiHeadAttention(d_model, num_heads) raises the assertion failure
\* exactly when d_model % num_heads # 0, it raises before any of wq, wk, wv,
\* dense exists, and a constructed object has depth = d_model / num_heads
\* with num_heads * depth = d_model.
C1_CtorAssertion ==
    LET divides == ctorArgs.d_model % ctorArgs.num_heads = 0
        layer   == self.wq \/ self.wk \/ self.wv \/ self.dense
    IN  /\ mpc = "AssertionError" => ~divides /\ ~layer /\ self.depth = 0
        /\ mpc \notin {"init", "assert", "AssertionError"} => divides
        /\ layer => divides
        /\ mpc \notin {"init", "assert", "AssertionError", "depth", "layers"}
             => /\ layer
                /\ self.num_heads * self.depth = self.d_model
                /\ self.d_model = ctorArgs.d_model
                /\ self.num_heads = ctorArgs.num_heads

C1_Witness ==
    /\ mpc = "AssertionError"
    /\ ctorArgs = [d_model |-> 10, num_heads |-> 3]

-----------------------------------------------------------------------------
(* split_heads and the head merge on tensors with data.                    *)
(* A tensor is its shape and its elements in row-major order.              *)

\* The row-major offset of the 0-based index idx in shape s.
RECURSIVE FlatIndex(_, _)
FlatIndex(s, idx) ==
    IF Len(s) = 0 THEN 0
    ELSE Head(idx) * Prod(Tail(s)) + FlatIndex(Tail(s), Tail(idx))

\* The 0-based index at row-major offset f in shape s.
RECURSIVE MultiIndex(_, _)
MultiIndex(s, f) ==
    IF Len(s) = 0 THEN <<>>
    ELSE <<f \div Prod(Tail(s))>> \o MultiIndex(Tail(s), f % Prod(Tail(s)))

At(t, idx) == t.data[FlatIndex(t.shape, idx) + 1]

\* tf.reshape: the row-major element order is kept.
Reshape(t, target) ==
    [shape |-> ReshapeShape(t.shape, target), data |-> t.data]

\* A transpose that relabels the axes and leaves the elements in place.
TransposeNoMove(t, perm) ==
    [shape |-> TransposeShape(t.shape, perm), data |-> t.data]

\* tf.transpose: element idx of the result is element src of t, where
\* src[perm[i]] = idx[i].
Transpose(t, perm) ==
    LET ns == TransposeShape(t.shape, perm)
        src(idx) == [a \in 1..Len(perm) |->
                        idx[CHOOSE i \in 1..Len(perm) : perm[i] + 1 = a]]
    IN  [shape |-> ns,
         data  |-> [f \in 1..Prod(ns) |-> At(t, src(MultiIndex(ns, f - 1)))]]

\* split_heads(x, batch_size), lines 69-70.
split_heads(t, batch_size) ==
    Transpose(Reshape(t, <<batch_size, -1, self.num_heads, self.depth>>),
              <<0, 2, 1, 3>>)

\* The merge of call, lines 88-92.
merge_heads(t, batch_size) ==
    Reshape(Transpose(t, <<0, 2, 1, 3>>), <<batch_size, -1, self.d_model>>)

\* The tensors split_heads is given: (batch, seq_len, d_model) with
\* distinct elements, so that a moved element shows.
Labelled(shape, offset) ==
    [shape |-> shape, data |-> [f \in 1..Prod(shape) |-> offset + f]]

InitSplit ==
    /\ mpc = "split_heads"
    /\ \E h \in 1..MaxHeads, d \in 1..MaxDepth :
         self = [num_heads |-> h, d_model |-> h * d, depth |-> d,
                 wq |-> TRUE, wk |-> TRUE, wv |-> TRUE, dense |-> TRUE]
    /\ \E batch \in 1..MaxBatch, seq_len \in 1..MaxSeqLen, offset \in {0, 100} :
         xin = Labelled(<<batch, seq_len, self.d_model>>, offset)
    /\ heads = NoTensor /\ merged = NoTensor
    /\ ctorArgs = [d_model |-> self.d_model, num_heads |-> self.num_heads]
    /\ callArgs = NoCall
    /\ frame = NoFrame
    /\ apc = "idle" /\ attArgs = NoAttArgs /\ att = NoAtt
    /\ EncIdle

SplitHeads ==
    /\ mpc = "split_heads"
    /\ heads' = split_heads(xin, xin.shape[1])
    /\ mpc' = "merge"
    /\ UNCHANGED <<self, xin, merged, notSplit>>

MergeHeads ==
    /\ mpc = "merge"
    /\ merged' = merge_heads(heads, xin.shape[1])
    /\ mpc' = "merged"
    /\ UNCHANGED <<self, xin, heads, notSplit>>

NextSplit ==
    \/ SplitHeads
    \/ MergeHeads

SpecSplit == InitSplit /\ [][NextSplit]_vars

\* C9: split_heads places x[b, s, h*depth + d] at [b, h, s, d], and the merge
\* of call (transpose with perm [0, 2, 1, 3], then reshape to
\* (batch, -1, d_model)) applied to split_heads(x) returns x exactly.
C9_SplitMergeInverse ==
    LET batch   == xin.shape[1]
        seq_len == xin.shape[2]
    IN  /\ mpc \in {"merge", "merged"} =>
             /\ heads.shape = <<batch, self.num_heads, seq_len, self.depth>>
             /\ \A b \in 0..(batch - 1), h \in 0..(self.num_heads - 1),
                   s \in 0..(seq_len - 1), d \in 0..(self.depth - 1) :
                  At(heads, <<b, h, s, d>>) = At(xin, <<b, s, h * self.depth + d>>)
        /\ mpc = "merged" => merged = xin

C9_Witness ==
    /\ mpc = "merged"
    /\ self.num_heads > 1 /\ self.depth > 1
    /\ xin.shape[1] > 1 /\ xin.shape[2] > 1
    /\ heads.data # xin.data

-----------------------------------------------------------------------------
(* scaled_dot_product_attention on numbers, for one head of one batch row: *)
(* q is seq_q x depth, k is seq_k x depth, v is seq_k x depth_v, the mask  *)
(* has one row (broadcast over the queries) or seq_q rows.  Scores are     *)
(* integers; the inputs are such that the division by sqrt(dk) is exact.   *)
(* exp is fixed point with 8 decimals, so a softmax weight is the fraction *)
(* num / den of two integers.                                              *)

\* The penalty of line 35, mask * -1e9.
MaskPenalty == 1000000000

\* 10^8 * e^(-d) for d = 0..19, rounded; from d = 20 on it rounds to 0.
ExpTable == <<100000000, 36787944, 13533528, 4978707, 1831564, 673795,
              247875, 91188, 33546, 12341, 4540, 1670, 614, 226, 83, 31,
              11, 4, 2, 1>>

\* exp(d) for d <= 0.
Exp(d) == IF -d < Len(ExpTable) THEN ExpTable[1 - d] ELSE 0

RECURSIVE Sum(_)
Sum(s) == IF Len(s) = 0 THEN 0 ELSE Head(s) + Sum(Tail(s))

Max(s) == CHOOSE m \in {s[i] : i \in 1..Len(s)} : \A i \in 1..Len(s) : s[i] <= m

Dot(a, b) == Sum([i \in 1..Len(a) |-> a[i] * b[i]])

\* tf.math.sqrt of a perfect square.
Sqrt(n) == CHOOSE r \in 0..n : r * r = n

\* line 27: tf.matmul(q, k, transpose_b=True).
MatmulQK(q, k) ==
    [i \in 1..Len(q) |-> [j \in 1..Len(k) |-> Dot(q[i], k[j])]]

\* line 31: matmul_qk / tf.math.sqrt(dk).
Scale(matmul_qk, dk) ==
    [i \in 1..Len(matmul_qk) |->
        [j \in 1..Len(matmul_qk[i]) |-> matmul_qk[i][j] \div Sqrt(dk)]]

\* The mask's entry for query i and key j, after broadcasting.
MaskAt(mask, i, j) == mask.rows[IF Len(mask.rows) = 1 THEN 1 ELSE i][j]

\* The same with the mask dropped.
AddMaskNoPenalty(logits, mask) == logits

\* lines 34-35: scaled_attention_logits += (mask * -1e9).
AddMask(logits, mask) ==
    IF ~mask.present THEN logits
    ELSE [i \in 1..Len(logits) |->
            [j \in 1..Len(logits[i]) |->
                logits[i][j] + MaskAt(mask, i, j) * (-MaskPenalty)]]

\* line 39: tf.nn.softmax(logits, axis=-1), row by row:
\* exp(l - max) / sum of exp(l - max).
SoftmaxRow(row) ==
    LET num == [j \in 1..Len(row) |-> Exp(row[j] - Max(row))]
    IN  [num |-> num, den |-> Sum(num)]

Softmax(logits) == [i \in 1..Len(logits) |-> SoftmaxRow(logits[i])]

\* line 41: tf.matmul(attention_weights, v), as fractions over the row's den.
WeightedSum(w, v) ==
    [i \in 1..Len(w) |->
        [num |-> [c \in 1..Len(v[1]) |->
                    Sum([j \in 1..Len(v) |-> w[i].num[j] * v[j][c]])],
         den |-> w[i].den]]

\* The inputs: rows of q and k are constant vectors, the values of k even,
\* so that every score is a multiple of sqrt(dk).
Depths == {1, 4}
QVals  == {0, 1}
KVals  == {-4, 0, 6, MaskPenalty \div 2}

Const(c, n) == [i \in 1..n |-> c]

Rows(vals, n, depth) == {[i \in 1..n |-> Const(f[i], depth)] : f \in [1..n -> vals]}

LookAhead(seq_q, seq_k) ==
    [i \in 1..seq_q |-> [j \in 1..seq_k |-> IF j > i THEN 1 ELSE 0]]

Masks(seq_q, seq_k) ==
    {[present |-> FALSE, rows |-> <<>>]}
    \cup {[present |-> TRUE, rows |-> <<m>>] : m \in [1..seq_k -> {0, 1}]}
    \cup {[present |-> TRUE, rows |-> LookAhead(seq_q, seq_k)]}

InitAtt ==
    /\ apc = "matmul"
    /\ \E seq_q \in 1..MaxSeqLen, seq_k \in 1..MaxSeqLen, depth \in Depths,
          vbase \in {0, 1} :
         \E q \in Rows(QVals, seq_q, depth), k \in Rows(KVals, seq_k, depth),
            mask \in Masks(seq_q, seq_k) :
              attArgs = [q |-> q, k |-> k,
                         v |-> [j \in 1..seq_k |-> <<vbase + j>>],
                         mask |-> mask]
    /\ att = NoAtt
    /\ mpc = "idle" /\ ctorArgs = [d_model |-> 0, num_heads |-> 0]
    /\ self = NoSelf /\ callArgs = NoCall /\ frame = NoFrame
    /\ xin = NoTensor /\ heads = NoTensor /\ merged = NoTensor
    /\ EncIdle

\* line 27.
AttMatmul ==
    /\ apc = "matmul"
    /\ att' = [att EXCEPT !.matmul_qk = MatmulQK(attArgs.q, attArgs.k)]
    /\ apc' = "scale"
    /\ UNCHANGED <<attArgs, notAtt>>

\* lines 30-31.
AttScale ==
    /\ apc = "scale"
    /\ LET dk == Len(attArgs.k[1])
       IN  att' = [att EXCEPT !.dk = dk,
                              !.scaled_attention_logits = Scale(att.matmul_qk, dk)]
    /\ apc' = "mask"
    /\ UNCHANGED <<attArgs, notAtt>>

\* lines 34-35.
AttMask ==
    /\ apc = "mask"
    /\ att' = [att EXCEPT !.scaled_attention_logits =
                              AddMask(att.scaled_attention_logits, attArgs.mask)]
    /\ apc' = "softmax"
    /\ UNCHANGED <<attArgs, notAtt>>

\* line 39.
AttSoftmax ==
    /\ apc = "softmax"
    /\ att' = [att EXCEPT !.attention_weights = Softmax(att.scaled_attention_logits)]
    /\ apc' = "output"
    /\ UNCHANGED <<attArgs, notAtt>>

\* lines 41-43.
AttOutput ==
    /\ apc = "output"
    /\ att' = [att EXCEPT !.output = WeightedSum(att.attention_weights, attArgs.v)]
    /\ apc' = "returned"
    /\ UNCHANGED <<attArgs, notAtt>>

NextAtt ==
    \/ AttMatmul
    \/ AttScale
    \/ AttMask
    \/ AttSoftmax
    \/ AttOutput

SpecAtt == InitAtt /\ [][NextAtt]_vars

\* The scaled raw scores of query i, before the mask is added.
RawRow(i) == Scale(MatmulQK(attArgs.q, attArgs.k), Len(attArgs.k[1]))[i]

\* Key j is blocked for query i.
Blocked(i, j) == attArgs.mask.present /\ MaskAt(attArgs.mask, i, j) = 1

\* A weight num / den is below 1e-6.
BelowEps(num, den) == num <= (den - 1) \div (10 ^ 6)

AttDone == apc \in {"output", "returned"}

\* The division of line 31 is exact on every input of the model.
ScaleIsExact ==
    apc # "matmul" =>
        \A i \in 1..Len(att.matmul_qk) : \A j \in 1..Len(att.matmul_qk[i]) :
            att.matmul_qk[i][j] % Sqrt(Len(attArgs.k[1])) = 0

\* C5 as stated: every blocked key position has a post-softmax weight below
\* 1e-6 for every query position, whatever the raw scores.
C5_AsStated ==
    AttDone =>
        \A i \in 1..Len(attArgs.q) : \A j \in 1..Len(attArgs.k) :
            Blocked(i, j) =>
                BelowEps(att.attention_weights[i].num[j],
                         att.attention_weights[i].den)

\* C5, amended: in a query row that has an unblocked key position and whose
\* scaled raw scores all have a magnitude of at most 1e8 (a tenth of the
\* penalty), every blocked key position has a weight below 1e-6.
C5_BlockedBelowEps ==
    AttDone =>
        \A i \in 1..Len(attArgs.q) :
            (/\ \E j \in 1..Len(attArgs.k) : ~Blocked(i, j)
             /\ \A j \in 1..Len(attArgs.k) :
                    /\ RawRow(i)[j] <= MaskPenalty \div 10
                    /\ RawRow(i)[j] >= -(MaskPenalty \div 10))
            => \A j \in 1..Len(attArgs.k) :
                  Blocked(i, j) =>
                      BelowEps(att.attention_weights[i].num[j],
                               att.attention_weights[i].den)

C5_Witness ==
    /\ apc = "returned"
    /\ Len(attArgs.k) > 1
    /\ \E i \in 1..Len(attArgs.q) :
         /\ \E j \in 1..Len(attArgs.k) : ~Blocked(i, j)
         /\ \E j \in 1..Len(attArgs.k) :
              /\ Blocked(i, j)
              /\ RawRow(i)[j] = Max(RawRow(i))
              /\ RawRow(i)[j] = 6
              /\ att.attention_weights[i].num[j] = 0
         /\ \A j \in 1..Len(attArgs.k) :
              RawRow(i)[j] <= 6 /\ RawRow(i)[j] >= -4

-----------------------------------------------------------------------------
(* SASEncoder.call, SASEncoderLayer.call and PointWiseFFN.call as data     *)
(* flow.  Every framework operation a call makes is appended to the tape;  *)
(* an entry names the operation, the layer it belongs to, the tape         *)
(* positions of its tensor arguments, the training flag and the mask it    *)
(* was given, the dropout pattern it drew (0: inactive, the identity) and, *)
(* for an embedding lookup, the indices looked up.  A local variable       *)
(* holds the tape position of its value, so the value of a variable is the *)
(* expression the tape spells out.                                         *)

Entry(op, layer, args, training, pattern, mask, idx, note) ==
    [op |-> op, layer |-> layer, args |-> args, training |-> training,
     pattern |-> pattern, mask |-> mask, idx |-> idx, note |-> note]

\* An operation of tensors only.
Op(op, layer, args) == Entry(op, layer, args, FALSE, 0, NoEncMask, <<>>, "")

\* A dropout that ignores the flag.
DropoutAlways(training) == TRUE

\* tf.keras.layers.Dropout: active only when training is true.
DropoutActive(training) == training

\* The states the generator can be in when a call first draws from it.
Seeds == {1, 2}

\* The generator's states after a dropout call: an active dropout draws, and
\* the first draw of a call finds the generator in any of its states.
RngAfter(training) ==
    IF DropoutActive(training)
    THEN {[seed |-> sd, draws |-> rng.draws + 1] :
            sd \in IF rng.seed = 0 THEN Seeds ELSE {rng.seed}}
    ELSE {rng}

Dropout(op, layer, arg, training, r) ==
    Entry(op, layer, <<arg>>, training,
          IF DropoutActive(training) THEN 100 * r.seed + r.draws ELSE 0,
          NoEncMask, <<>>, "")

\* Positions counted from 1.
XPosOneBased(batch, seq_len) == [b \in 1..batch |-> [j \in 1..seq_len |-> j]]

\* line 180: x_pos = tf.tile(tf.expand_dims(tf.range(seq_len), 0), [batch, 1]).
XPos(batch, seq_len) == [b \in 1..batch |-> [j \in 1..seq_len |-> j - 1]]

\* A loop that runs once more.
LoopRunsOnceMore(i, num_layers) == i <= num_layers

\* line 185: for i in range(self.num_layers).
LoopContinues(i, num_layers) == i < num_layers

\* The stack walked from its end.
LayerReversed(i) == enc.num_layers - 1 - i

\* line 186: self.enc_layers[i].
LayerAt(i) == i

\* The residual taken from the layer input instead.
Residual2FromInput == loc.lx

\* line 151: the residual of the second add, out1.
Residual2 == loc.out1

\* The masks a caller passes, broadcast to (batch, seq_len, seq_len): none,
\* the padding mask of the token ids (key positions holding id 0), the
\* look-ahead mask, and both combined.
TokenIds == {0, 1}

PaddingMask(tokens) ==
    [b \in 1..Len(tokens) |-> [i \in 1..Len(tokens[b]) |->
        [j \in 1..Len(tokens[b]) |-> IF tokens[b][j] = 0 THEN 1 ELSE 0]]]

LookAheadMask(tokens) ==
    [b \in 1..Len(tokens) |-> [i \in 1..Len(tokens[b]) |->
        [j \in 1..Len(tokens[b]) |-> IF j > i THEN 1 ELSE 0]]]

CombinedMask(tokens) ==
    [b \in 1..Len(tokens) |-> [i \in 1..Len(tokens[b]) |->
        [j \in 1..Len(tokens[b]) |->
            IF tokens[b][j] = 0 \/ j > i THEN 1 ELSE 0]]]

EncMasks(tokens) ==
    {NoEncMask,
     [present |-> TRUE, m |-> PaddingMask(tokens)],
     [present |-> TRUE, m |-> LookAheadMask(tokens)],
     [present |-> TRUE, m |-> CombinedMask(tokens)]}

InitEnc ==
    /\ epc = "embedding"
    /\ \E num_layers \in 0..MaxLayers, max_len \in {MaxSeqLen - 1, MaxSeqLen} :
         enc = [num_layers |-> num_layers, max_len |-> max_len]
    /\ \E batch \in 1..2, seq_len \in 1..MaxSeqLen, training \in BOOLEAN :
         \E tokens \in [1..batch -> [1..seq_len -> TokenIds]] :
            \E mask \in EncMasks(tokens) :
               encArgs = [x |-> tokens, training |-> training, mask |-> mask]
    /\ rng = [seed |-> 0, draws |-> 0]
    /\ tape = <<>>
    /\ loc = NoLoc
    /\ finished = <<>>
    /\ mpc = "idle" /\ ctorArgs = [d_model |-> 0, num_heads |-> 0]
    /\ self = NoSelf /\ callArgs = NoCall /\ frame = NoFrame
    /\ xin = NoTensor /\ heads = NoTensor /\ merged = NoTensor
    /\ apc = "idle" /\ attArgs = NoAttArgs /\ att = NoAtt

Top == Len(tape)

\* SASEncoder.call, lines 175-178: seq_len, x = self.embedding(x).
EncEmbedding ==
    /\ epc = "embedding"
    /\ tape' = Append(tape, Entry("embedding", -1, <<>>, FALSE, 0, NoEncMask,
                                  encArgs.x, ""))
    /\ loc' = [loc EXCEPT !.seq_len = Len(encArgs.x[1]), !.x = Top + 1]
    /\ epc' = "scale"
    /\ UNCHANGED <<enc, encArgs, rng, finished, notEnc>>

\* line 179: x *= tf.math.sqrt(tf.cast(self.d_model, tf.float32)).
EncScale ==
    /\ epc = "scale"
    /\ tape' = Append(tape, Op("mul_sqrt_d_model", -1, <<loc.x>>))
    /\ loc' = [loc EXCEPT !.x = Top + 1]
    /\ epc' = "x_pos"
    /\ UNCHANGED <<enc, encArgs, rng, finished, notEnc>>

\* line 180: x_pos, from the shape of x alone.
EncPositions ==
    /\ epc = "x_pos"
    /\ loc' = [loc EXCEPT !.x_pos = XPos(Len(encArgs.x), Len(encArgs.x[1]))]
    /\ epc' = "pos_embedding"
    /\ UNCHANGED <<enc, encArgs, rng, tape, finished, notEnc>>

OutOfTable(x_pos) ==
    \E b \in 1..Len(x_pos) : \E j \in 1..Len(x_pos[b]) :
        x_pos[b][j] < 0 \/ x_pos[b][j] >= enc.max_len

\* line 181: x += self.pos_embedding(x_pos).  The lookup is made with x_pos
\* as it is; an index outside the table makes the framework raise (CPU) or
\* yield a zero row (GPU).
EncAddPos ==
    /\ epc = "pos_embedding"
    /\ \E outcome \in IF OutOfTable(loc.x_pos) THEN {"raise", "zeros"} ELSE {""} :
         /\ tape' = IF outcome = "raise"
                    THEN Append(tape, Entry("pos_embedding", -1, <<>>, FALSE, 0,
                                            NoEncMask, loc.x_pos, outcome))
                    ELSE tape \o
                         <<Entry("pos_embedding", -1, <<>>, FALSE, 0,
                                 NoEncMask, loc.x_pos, outcome),
                           Op("add", -1, <<loc.x, Top + 1>>)>>
         /\ loc' = IF outcome = "raise" THEN loc ELSE [loc EXCEPT !.x = Top + 2]
         /\ epc' = IF outcome = "raise" THEN "InvalidArgumentError" ELSE "dropout"
    /\ UNCHANGED <<enc, encArgs, rng, finished, notEnc>>

\* line 183: x = self.dropout(x, training=training).
EncDropout ==
    /\ epc = "dropout"
    /\ \E r \in RngAfter(encArgs.training) :
         /\ rng' = r
         /\ tape' = Append(tape, Dropout("dropout", -1, loc.x, encArgs.training, r))
    /\ loc' = [loc EXCEPT !.x = Top + 1, !.i = 0]
    /\ epc' = "loop"
    /\ UNCHANGED <<enc, encArgs, finished, notEnc>>

\* lines 185-186: the next iteration calls self.enc_layers[i](x, training, mask).
EncLayerCall ==
    /\ epc = "loop"
    /\ LoopContinues(loc.i, enc.num_layers)
    /\ tape' = Append(tape, Entry("SASEncoderLayer", LayerAt(loc.i), <<loc.x>>,
                                  encArgs.training, 0, encArgs.mask, <<>>, ""))
    /\ loc' = [loc EXCEPT !.layer = LayerAt(loc.i),
                          !.ltraining = encArgs.training,
                          !.lmask = encArgs.mask,
                          !.lx = loc.x,
                          !.attn_output = 0, !.out1 = 0,
                          !.ffn_output = 0, !.out2 = 0]
    /\ epc' = "mha"
    /\ UNCHANGED <<enc, encArgs, rng, finished, notEnc>>

\* SASEncoderLayer.call, line 145: attn_output, _ = self.mha(x, x, x, mask).
LayerMHA ==
    /\ epc = "mha"
    /\ tape' = Append(tape, Entry("mha", loc.layer, <<loc.lx, loc.lx, loc.lx>>,
                                  FALSE, 0, loc.lmask, <<>>, ""))
    /\ loc' = [loc EXCEPT !.attn_output = Top + 1]
    /\ epc' = "dropout1"
    /\ UNCHANGED <<enc, encArgs, rng, finished, notEnc>>

\* line 146: attn_output = self.dropout1(attn_output, training=training).
LayerDropout1 ==
    /\ epc = "dropout1"
    /\ \E r \in RngAfter(loc.ltraining) :
         /\ rng' = r
         /\ tape' = Append(tape, Dropout("dropout1", loc.layer, loc.attn_output,
                                         loc.ltraining, r))
    /\ loc' = [loc EXCEPT !.attn_output = Top + 1]
    /\ epc' = "layernorm1"
    /\ UNCHANGED <<enc, encArgs, finished, notEnc>>

\* line 147: out1 = self.layernorm1(x + attn_output).
LayerNorm1 ==
    /\ epc = "layernorm1"
    /\ tape' = tape \o <<Op("add", loc.layer, <<loc.lx, loc.attn_output>>),
                         Op("layernorm1", loc.layer, <<Top + 1>>)>>
    /\ loc' = [loc EXCEPT !.out1 = Top + 2]
    /\ epc' = "ffn"
    /\ UNCHANGED <<enc, encArgs, rng, finished, notEnc>>

\* line 149: ffn_output = self.ffn(out1, training=training), which is
\* PointWiseFFN.call, lines 109-113: conv1d_1, dropout, conv1d_2.
LayerFFN ==
    /\ epc = "ffn"
    /\ \E r \in RngAfter(loc.ltraining) :
         /\ rng' = r
         /\ tape' = tape \o
               <<Op("conv1d_1", loc.layer, <<loc.out1>>),
                 Dropout("ffn_dropout", loc.layer, Top + 1, loc.ltraining, r),
                 Op("conv1d_2", loc.layer, <<Top + 2>>)>>
    /\ loc' = [loc EXCEPT !.ffn_output = Top + 3]
    /\ epc' = "dropout2"
    /\ UNCHANGED <<enc, encArgs, finished, notEnc>>

\* line 150: ffn_output = self.dropout2(ffn_output, training=training).
LayerDropout2 ==
    /\ epc = "dropout2"
    /\ \E r \in RngAfter(loc.ltraining) :
         /\ rng' = r
         /\ tape' = Append(tape, Dropout("dropout2", loc.layer, loc.ffn_output,
                                         loc.ltraining, r))
    /\ loc' = [loc EXCEPT !.ffn_output = Top + 1]
    /\ epc' = "layernorm2"
    /\ UNCHANGED <<enc, encArgs, finished, notEnc>>

\* line 151: out2 = self.layernorm2(out1 + ffn_output).
LayerNorm2 ==
    /\ epc = "layernorm2"
    /\ tape' = tape \o <<Op("add", loc.layer, <<Residual2, loc.ffn_output>>),
                         Op("layernorm2", loc.layer, <<Top + 1>>)>>
    /\ loc' = [loc EXCEPT !.out2 = Top + 2]
    /\ epc' = "layer_return"
    /\ UNCHANGED <<enc, encArgs, rng, finished, notEnc>>

\* line 153: return out2; and line 186: x = that, the loop goes on.
LayerReturn ==
    /\ epc = "layer_return"
    /\ loc' = [loc EXCEPT !.x = loc.out2, !.i = loc.i + 1]
    /\ epc' = "loop"
    /\ UNCHANGED <<enc, encArgs, rng, tape, finished, notEnc>>

\* line 188: the loop is over, return x.
EncReturn ==
    /\ epc = "loop"
    /\ ~LoopContinues(loc.i, enc.num_layers)
    /\ finished' = Append(finished, [tape |-> tape, out |-> loc.x])
    /\ epc' = "returned"
    /\ UNCHANGED <<enc, encArgs, rng, tape, loc, notEnc>>

\* The caller calls once more, with the same arguments and parameters.
CallAgain ==
    /\ epc = "returned"
    /\ Len(finished) < 2
    /\ rng' = [seed |-> 0, draws |-> 0]
    /\ tape' = <<>>
    /\ loc' = NoLoc
    /\ epc' = "embedding"
    /\ UNCHANGED <<enc, encArgs, finished, notEnc>>

NextEnc ==
    \/ EncEmbedding
    \/ EncScale
    \/ EncPositions
    \/ EncAddPos
    \/ EncDropout
    \/ EncLayerCall
    \/ LayerMHA
    \/ LayerDropout1
    \/ LayerNorm1
    \/ LayerFFN
    \/ LayerDropout2
    \/ LayerNorm2
    \/ LayerReturn
    \/ EncReturn
    \/ CallAgain

SpecEnc == InitEnc /\ [][NextEnc]_vars

-----------------------------------------------------------------------------
(* What the tape says.                                                     *)

Ops(t) == [n \in 1..Len(t) |-> t[n].op]

\* The operations of one SASEncoderLayer.call, in the order of its six steps
\* (the call itself first; the feed forward is conv1d_1, dropout, conv1d_2).
LayerOps ==
    <<"SASEncoderLayer", "mha", "dropout1", "add", "layernorm1",
      "conv1d_1", "ffn_dropout", "conv1d_2", "dropout2", "add", "layernorm2">>

StageOps == <<"embedding", "mul_sqrt_d_model", "pos_embedding", "add", "dropout">>

RECURSIVE Repeat(_, _)
Repeat(s, n) == IF n = 0 THEN <<>> ELSE s \o Repeat(s, n - 1)

ExpectedOps(num_layers) == StageOps \o Repeat(LayerOps, num_layers)

\* The key positions query i of batch row b attends to under a mask: the
\* unblocked ones; a row with every key blocked attends to all of them
\* (the softmax of equal logits is uniform).
Visible(mask, seq_len, b, i) ==
    IF ~mask.present THEN 1..seq_len
    ELSE LET open == {j \in 1..seq_len : mask.m[b][i][j] = 0}
         IN  IF open = {} THEN 1..seq_len ELSE open

\* The input positions whose token embedding the value at tape position id
\* depends on, at position i of batch row b.  Attention mixes the visible
\* positions; every other operation acts on each position alone.
RECURSIVE Contrib(_, _, _, _)
Contrib(t, id, b, i) ==
    LET e == t[id]
    IN  CASE e.op = "embedding"     -> {i}
          [] e.op = "pos_embedding" -> {}
          [] e.op = "mha" ->
                Contrib(t, e.args[3], b, i)
                \cup UNION {Contrib(t, e.args[1], b, j) \cup Contrib(t, e.args[2], b, j) :
                              j \in Visible(e.mask, Len(encArgs.x[b]), b, i)}
          [] OTHER -> UNION {Contrib(t, e.args[a], b, i) : a \in 1..Len(e.args)}

Batch  == Len(encArgs.x)
SeqLen == Len(encArgs.x[1])

\* C3: with training = False no dropout is active, so two calls with the
\* same input, mask and parameters make the same operations on the same
\* values and return the same result (every layer's output included); only
\* calls with training = True may differ.
C3_EvalDeterministic ==
    ~encArgs.training =>
        /\ rng.draws = 0
        /\ \A n \in 1..Len(tape) : tape[n].pattern = 0
        /\ Len(finished) = 2 => finished[1] = finished[2]

C3_Witness ==
    /\ Len(finished) = 2
    /\ ~encArgs.training
    /\ enc.num_layers >= 1
    /\ finished[1] = finished[2]
    /\ \E n \in 1..Len(finished[2].tape) : finished[2].tape[n].op = "ffn_dropout"

\* Calls with training = True do differ in some behaviour.
C3_TrainingMayDiffer ==
    /\ Len(finished) = 2
    /\ encArgs.training
    /\ finished[1] # finished[2]

\* C4: with num_layers = 0 the call makes the embedding, scaling,
\* positional and dropout operations and nothing else; what it returns is
\* the value of the dropout; no encoder layer is called and no operation is
\* given the mask.
C4_ZeroLayers ==
    enc.num_layers = 0 =>
        /\ epc \in {"embedding", "scale", "x_pos", "pos_embedding", "dropout",
                    "loop", "returned", "InvalidArgumentError"}
        /\ \A n \in 1..Len(tape) : tape[n].mask = NoEncMask
        /\ \A r \in 1..Len(finished) :
              /\ Ops(finished[r].tape) = StageOps
              /\ finished[r].out = Len(StageOps)
              /\ finished[r].tape[finished[r].out].args = <<Len(StageOps) - 1>>
              /\ \A n \in 1..Len(finished[r].tape) :
                    finished[r].tape[n].mask = NoEncMask

C4_Witness ==
    /\ enc.num_layers = 0
    /\ epc = "returned"
    /\ encArgs.mask.present
    /\ encArgs.training
    /\ Len(finished) = 2

\* C6: SASEncoderLayer.call makes its steps in this order and wiring:
\* (1) mha(x, x, x, mask) on the layer input x with the given mask, (2)
\* dropout1 on its output, (3) x + that, then layernorm1, giving out1, (4)
\* the feed forward on out1, (5) dropout2 on its output, (6) out1 + that,
\* then layernorm2, whose result is returned.
C6_LayerWiring ==
    epc = "layer_return" =>
        LET base == Len(tape) - Len(LayerOps) + 1
            T(n) == tape[base + n]
        IN  /\ base >= 1
            /\ Ops(SubSeq(tape, base, Len(tape))) = LayerOps
            /\ T(0).args = <<loc.lx>> /\ loc.lx < base
            /\ T(1).args = <<loc.lx, loc.lx, loc.lx>>
            /\ T(1).mask = T(0).mask /\ T(0).mask = encArgs.mask
            /\ T(2).args = <<base + 1>> /\ T(2).training = T(0).training
            /\ T(3).args = <<loc.lx, base + 2>>
            /\ T(4).args = <<base + 3>> /\ loc.out1 = base + 4
            /\ T(5).args = <<loc.out1>>
            /\ T(6).args = <<base + 5>> /\ T(6).training = T(0).training
            /\ T(7).args = <<base + 6>>
            /\ T(8).args = <<base + 7>> /\ T(8).training = T(0).training
            /\ T(9).args = <<loc.out1, base + 8>>
            /\ T(10).args = <<base + 9>> /\ loc.out2 = base + 10
            /\ \A n \in 0..10 : T(n).layer = loc.layer

C6_Witness ==
    /\ epc = "layer_return"
    /\ loc.layer = 1
    /\ encArgs.mask.present
    /\ encArgs.training
    /\ SeqLen > 1

\* C7: SASEncoder.call looks up the token embedding, scales it, adds the
\* positional embedding (which is not scaled), applies dropout, then calls
\* the layers 0..num_layers-1 in index order, each once and on the value
\* before it, each with the call's training flag and mask unchanged.
C7_StageOrder ==
    LET calls(n) == {c \in 1..n : tape[c].op = "SASEncoderLayer"}
    IN  /\ Len(tape) <= Len(ExpectedOps(enc.num_layers))
        /\ \A n \in 1..Len(tape) : tape[n].op = ExpectedOps(enc.num_layers)[n]
        /\ Len(tape) >= 2 => tape[2].args = <<1>>
        /\ Len(tape) >= 4 => tape[3].args = <<>> /\ tape[4].args = <<2, 3>>
        /\ Len(tape) >= 5 => tape[5].args = <<4>>
        /\ \A n \in 1..Len(tape) :
              tape[n].op = "SASEncoderLayer" =>
                  /\ tape[n].layer = Cardinality(calls(n)) - 1
                  /\ tape[n].args = <<n - 1>>
                  /\ tape[n].training = encArgs.training
                  /\ tape[n].mask = encArgs.mask
        /\ \A r \in 1..Len(finished) :
              /\ Ops(finished[r].tape) = ExpectedOps(enc.num_layers)
              /\ finished[r].out = Len(finished[r].tape)
        /\ epc = "returned" => tape = finished[Len(finished)].tape

C7_Witness ==
    /\ epc = "returned"
    /\ enc.num_layers >= 2
    /\ encArgs.mask.present
    /\ encArgs.training

\* C8 as stated, for the query positions that hold a real token in a
\* sequence that fits the positional table: whatever mask the caller passes
\* (none included), a position holding token id 0 is not among the keys a
\* layer's attention attends to, and its embedding does not contribute to
\* the attention output at another position.
C8_PaddingSuppressed ==
    epc = "dropout1" =>
        \A b \in 1..Batch : \A i \in 1..SeqLen : \A j \in 1..SeqLen :
            (encArgs.x[b][j] = 0 /\ encArgs.x[b][i] # 0 /\ SeqLen <= enc.max_len) =>
                /\ j \notin Visible(tape[Len(tape)].mask, SeqLen, b, i)
                /\ j \notin Contrib(tape, Len(tape), b, i)

\* C10: the positional index looked up at sequence position j of every
\* batch row is j, whatever the token ids; with seq_len <= max_len every
\* index lies in [0, max_len); nothing checks seq_len against max_len, so
\* with seq_len > max_len the lookup is made with the indices
\* max_len..seq_len-1, which are outside the table.
C10_PositionalIndex ==
    LET range == [b \in 1..Batch |-> [j \in 1..SeqLen |-> j - 1]]
    IN  /\ loc.x_pos # <<>> => loc.x_pos = range
        /\ \A n \in 1..Len(tape) :
              tape[n].op = "pos_embedding" =>
                  /\ tape[n].idx = range
                  /\ SeqLen <= enc.max_len =>
                        /\ tape[n].note = ""
                        /\ \A b \in 1..Batch : \A j \in 1..SeqLen :
                              tape[n].idx[b][j] \in 0..(enc.max_len - 1)
                  /\ SeqLen > enc.max_len =>
                        /\ tape[n].note \in {"raise", "zeros"}
                        /\ \A b \in 1..Batch : \A p \in enc.max_len..(SeqLen - 1) :
                              \E j \in 1..SeqLen : tape[n].idx[b][j] = p
        /\ epc = "InvalidArgumentError" => SeqLen > enc.max_len
        /\ epc \notin {"idle", "embedding", "scale", "x_pos", "pos_embedding"}
              => \E n \in 1..Len(tape) : tape[n].op = "pos_embedding"

C10_Witness ==
    /\ \E n \in 1..Len(tape) : tape[n].op = "pos_embedding"
    /\ SeqLen > enc.max_len
    /\ Batch = 2
    /\ encArgs.x[2][SeqLen] = 0

====
